---- MODULE Spec2Model ----
(***************************************************************************)
(* Model of the useModel hook (src/src/hooks/useModel.ts): resolution of   *)
(* the target Model, the template parse done while rendering, the effect   *)
(* that dispatches the fetch and attaches the response handlers, the       *)
(* promise reactions, the stream data listeners, stopModel and the value   *)
(* the hook returns.                                                       *)
(*                                                                         *)
(* Text (prompts, tags, endpoints, schemas, output) is a sequence of       *)
(* one-character strings, so that concatenation, includes, toLowerCase and *)
(* replace are computed and not assumed.                                   *)
(***************************************************************************)
EXTENDS Integers, Sequences, FiniteSets, TLC

\* ------------------------------------------------------------------ bounds
\* fetch calls per behaviour
MaxReq == 2
\* then/finally handlers (effect runs) attached to one fetch
MaxHandlers == 2
\* stream chunks delivered per response
MaxChunks == 2
\* renders with changed arguments after the first render
MaxRenders == 2

\* ------------------------------------------------------------ text helpers
\* String.prototype.includes
Includes(s, sub) ==
  \E i \in 0..(Len(s) - Len(sub)) : SubSeq(s, i + 1, i + Len(sub)) = sub

\* index of the first occurrence of pat in s, 0 when there is none
FirstIndex(s, pat) ==
  IF Includes(s, pat)
  THEN CHOOSE i \in 1..(Len(s) - Len(pat) + 1) :
         /\ SubSeq(s, i, i + Len(pat) - 1) = pat
         /\ \A j \in 1..(i - 1) : SubSeq(s, j, j + Len(pat) - 1) # pat
  ELSE 0

\* String.prototype.replace with a string pattern: first occurrence only
Replace(s, pat, rep) ==
  LET i == FirstIndex(s, pat)
  IN IF i = 0 THEN s
     ELSE SubSeq(s, 1, i - 1) \o rep \o SubSeq(s, i + Len(pat), Len(s))

LowerChar(c) ==
  CASE c = "R" -> "r"
    [] c = "A" -> "a"
    [] c = "Y" -> "y"
    [] c = "C" -> "c"
    [] c = "S" -> "s"
    [] c = "T" -> "t"
    [] c = "I" -> "i"
    [] OTHER -> c

\* String.prototype.toLowerCase
ToLowerCase(s) == [i \in 1..Len(s) |-> LowerChar(s[i])]

WhiteSpace == {" ", "\n", "\r", "\t"}

\* replaceAll(/[\n\r\s]+/g, " ")
RECURSIVE CollapseWs(_)
CollapseWs(s) ==
  IF s = <<>> THEN <<>>
  ELSE IF Head(s) \in WhiteSpace
       THEN IF Len(s) > 1 /\ s[2] \in WhiteSpace
            THEN CollapseWs(Tail(s))
            ELSE <<" ">> \o CollapseWs(Tail(s))
       ELSE <<Head(s)>> \o CollapseWs(Tail(s))

\* replaceAll('"', '\\"')
RECURSIVE EscapeQuotes(_)
EscapeQuotes(s) ==
  IF s = <<>> THEN <<>>
  ELSE IF Head(s) = "\""
       THEN <<"\\", "\"">> \o EscapeQuotes(Tail(s))
       ELSE <<Head(s)>> \o EscapeQuotes(Tail(s))

Sanitize(s) == EscapeQuotes(CollapseWs(s))

\* ------------------------------------------------------- JSON.parse (text)
\* Acceptance of JSON.parse on the texts the model can build: strings and
\* objects whose members are strings or objects.  Each parser returns the
\* index after what it consumed, 0 when the text is rejected there.
RECURSIVE SkipWs(_, _)
SkipWs(s, i) ==
  IF i <= Len(s) /\ s[i] \in WhiteSpace THEN SkipWs(s, i + 1) ELSE i

\* i is the position after the opening quote
RECURSIVE ParseString(_, _)
ParseString(s, i) ==
  IF i > Len(s) THEN 0
  ELSE IF s[i] = "\"" THEN i + 1
  ELSE IF s[i] = "\\"
       THEN IF i + 1 <= Len(s) /\ s[i + 1] \in {"\"", "\\"}
            THEN ParseString(s, i + 2)
            ELSE 0
  ELSE IF s[i] \in {"\n", "\r", "\t"} THEN 0
  ELSE ParseString(s, i + 1)

RECURSIVE ParseValue(_, _)
RECURSIVE ParseMembers(_, _)
\* i is the position of the first character of a member (after "{" or ",")
ParseMembers(s, i) ==
  LET k == SkipWs(s, i)
  IN IF k > Len(s) \/ s[k] # "\"" THEN 0
     ELSE LET e == ParseString(s, k + 1)
              c == IF e = 0 THEN 0 ELSE SkipWs(s, e)
          IN IF c = 0 \/ c > Len(s) \/ s[c] # ":" THEN 0
             ELSE LET v == ParseValue(s, c + 1)
                      n == IF v = 0 THEN 0 ELSE SkipWs(s, v)
                  IN IF n = 0 \/ n > Len(s) THEN 0
                     ELSE IF s[n] = "}" THEN n + 1
                     ELSE IF s[n] = "," THEN ParseMembers(s, n + 1)
                     ELSE 0

ParseValue(s, i) ==
  LET k == SkipWs(s, i)
  IN IF k > Len(s) THEN 0
     ELSE IF s[k] = "\"" THEN ParseString(s, k + 1)
     ELSE IF s[k] = "{"
          THEN LET m == SkipWs(s, k + 1)
               IN IF m <= Len(s) /\ s[m] = "}" THEN m + 1
                  ELSE ParseMembers(s, k + 1)
     ELSE 0

\* TRUE iff JSON.parse(s) returns, FALSE iff it throws SyntaxError
JSONParses(s) ==
  LET e == ParseValue(s, 1)
  IN e # 0 /\ SkipWs(s, e) = Len(s) + 1

\* ------------------------------------------------------------ text values
Q == "\""
PhPrompt == <<"{", "p", "r", "o", "m", "p", "t", "}">>
PhPromptOpen == <<"{", "p", "r", "o", "m", "p", "t">>
PhBasePrompt == <<"{", "b", "a", "s", "e", "P", "r", "o", "m", "p", "t", "}">>
PhInput == <<"{", "i", "n", "p", "u", "t", "}">>

\* {"p":"{prompt}","i":"{input}"}
SchemaOk ==
  <<"{", Q, "p", Q, ":", Q>> \o PhPrompt \o <<Q, ",", Q, "i", Q, ":", Q>>
    \o PhInput \o <<Q, "}">>
\* {prompt} : the bare placeholder, never JSON after substitution
SchemaBare == PhPrompt

EpRaycastAI == <<"R", "a", "y", "c", "a", "s", "t", " ", "A", "I">>
EpRaycastUpper == <<"R", "A", "Y", "C", "A", "S", "T">>
EpEmpty == <<>>
EpNoColon == <<"f", "o", "o">>
EpUrl == <<"h", ":", "x">>

\* line 32
validRaycastAIReps ==
  { <<"r", "a", "y", "c", "a", "s", "t", " ", "a", "i">>,
    <<"r", "a", "y", "c", "a", "s", "t", "a", "i">>,
    <<"r", "a", "y", "c", "a", "s", "t">>,
    <<"r", "a", "y", "c", "a", "s", "t", "-", "a", "i">>,
    <<"r", "a", "y", "c", "a", "s", "t", " ", "a", "i", " ", "3", ".", "5">> }

\* ------------------------------------------------------------------ Models
MkModel(n, ep, schema, timing, dflt) ==
  [name |-> n, endpoint |-> ep, inputSchema |-> schema,
   outputKeyPath |-> <<"t">>, outputTiming |-> timing, isDefault |-> dflt]

\* modelOverride === undefined / find() found nothing
NoModel == [name |-> "undefined"]

\* lines 33-50
fallbackModel ==
  [name |-> "Text-Davinci-003 Via Raycast AI", endpoint |-> EpRaycastAI,
   inputSchema |-> <<>>, outputKeyPath |-> <<>>, outputTiming |-> "async",
   isDefault |-> FALSE]

HttpAsync == MkModel("http-async", EpUrl, SchemaOk, "async", TRUE)
HttpSync == MkModel("http-sync", EpUrl, SchemaOk, "sync", TRUE)
HttpBadSchema == MkModel("http-bad-schema", EpUrl, SchemaBare, "async", TRUE)
NoColonModel == MkModel("no-colon", EpNoColon, SchemaOk, "async", TRUE)
EmptyEpModel == MkModel("empty-endpoint", EpEmpty, SchemaOk, "async", TRUE)
RaycastUpperModel == MkModel("raycast-upper", EpRaycastUpper, <<>>, "async", TRUE)
NotDefault == MkModel("not-default", EpUrl, SchemaOk, "sync", FALSE)

\* the preference values the hook reads (lines 23, 51-68)
PrefsEmpty ==
  [modelEndpoint |-> EpEmpty, inputSchema |-> <<>>, outputKeyPath |-> <<>>,
   outputTiming |-> "async", promptPrefix |-> <<>>, promptSuffix |-> <<>>]
PrefsUrl ==
  [modelEndpoint |-> EpUrl, inputSchema |-> SchemaOk, outputKeyPath |-> <<"t">>,
   outputTiming |-> "sync", promptPrefix |-> <<>>, promptSuffix |-> <<>>]

\* ----------------------------------------------------------------- inputs
\* <<basePrompt, prompt, input>>: nothing at all, a base prompt alone, a
\* prompt alone with the same tag, the prompt with an input
Texts ==
  { << <<>>, <<>>, <<>> >>, << <<"a">>, <<>>, <<>> >>,
    << <<>>, <<"a">>, <<>> >>, << <<>>, <<"a">>, <<"b">> >> }

\* what useModels() returns while it loads, and what it can hold afterwards
Loading == [isLoading |-> TRUE, models |-> <<>>]
Loaded(ms) == [isLoading |-> FALSE, models |-> ms]
LoadedRegistries ==
  { <<>>, <<HttpAsync>>, <<NotDefault, HttpSync>>, <<HttpBadSchema>>,
    <<NoColonModel>>, <<EmptyEpModel>>, <<RaycastUpperModel>> }

\* the calls the hook starts from: <<modelOverride, preferences, models>>
Setups ==
  { <<NoModel, PrefsEmpty, Loaded(ms)>> : ms \in LoadedRegistries }
    \cup { <<NoModel, PrefsUrl, Loaded(<<>>)>>,
           <<NoModel, PrefsUrl, Loaded(<<RaycastUpperModel>>)>>,
           <<NoModel, PrefsEmpty, Loading>>,
           <<NoModel, PrefsUrl, Loading>>,
           <<HttpSync, PrefsEmpty, Loading>>,
           <<HttpSync, PrefsUrl, Loaded(<<HttpAsync>>)>>,
           <<EmptyEpModel, PrefsUrl, Loaded(<<HttpAsync>>)>> }

\* ---------------------------------------------------------- decoded JSON
\* A decoded JSON value: an object (value: key text -> JSON value), a string
\* (value: text), null or undefined.
JObject(f) == [type |-> "object", value |-> f]
JString(t) == [type |-> "string", value |-> t]
JNull == [type |-> "null", value |-> <<>>]
JUndefined == [type |-> "undefined", value |-> <<>>]
\* the outcome of an evaluation that throws instead of returning a value
JThrows == [type |-> "throws", value |-> <<>>]

\* v[k] in JavaScript, for the values above
Prop(v, k) ==
  IF v.type = "object" /\ k \in DOMAIN v.value THEN v.value[k] ELSE JUndefined

\* !v
Falsy(v) ==
  v.type \in {"undefined", "null"} \/ (v.type = "string" /\ v.value = <<>>)

\* String.prototype.trim
RECURSIVE TrimLeft(_)
TrimLeft(s) ==
  IF s # <<>> /\ Head(s) \in WhiteSpace THEN TrimLeft(Tail(s)) ELSE s
RECURSIVE TrimRight(_)
TrimRight(s) ==
  IF s # <<>> /\ s[Len(s)] \in WhiteSpace
  THEN TrimRight(SubSeq(s, 1, Len(s) - 1)) ELSE s
Trim(s) == TrimRight(TrimLeft(s))

\* split(".")
RECURSIVE SplitDots(_)
SplitDots(s) ==
  LET i == FirstIndex(s, <<".">>)
  IN IF i = 0 THEN <<s>>
     ELSE <<SubSeq(s, 1, i - 1)>> \o SplitDots(SubSeq(s, i + 1, Len(s)))

\* last index of the run of characters other than "}" that follows index i
RunEnd(s, i) ==
  IF \E k \in (i + 1)..Len(s) : s[k] = "}"
  THEN (CHOOSE k \in (i + 1)..Len(s) :
          s[k] = "}" /\ \A m \in (i + 1)..(k - 1) : s[m] # "}") - 1
  ELSE Len(s)

\* /\[([^}]+)\]/ matches at index i
BracketAt(s, i) ==
  s[i] = "[" /\ \E j \in (i + 2)..RunEnd(s, i) : s[j] = "]"

\* split(/\[([^}]+)\]/g): the pieces around each match and its capture group
RECURSIVE SplitBrackets(_)
SplitBrackets(s) ==
  IF \E i \in 1..Len(s) : BracketAt(s, i)
  THEN LET i == CHOOSE i \in 1..Len(s) :
                  BracketAt(s, i) /\ \A m \in 1..(i - 1) : ~BracketAt(s, m)
           j == CHOOSE j \in (i + 2)..RunEnd(s, i) :
                  s[j] = "]" /\ \A m \in (j + 1)..RunEnd(s, i) : s[m] # "]"
       IN <<SubSeq(s, 1, i - 1), SubSeq(s, i + 1, j - 1)>>
            \o SplitBrackets(SubSeq(s, j + 1, Len(s)))
  ELSE <<s>>

RECURSIVE PathOfItems(_)
PathOfItems(items) ==
  IF items = <<>> THEN <<>>
  ELSE SelectSeq(SplitBrackets(Head(items)), LAMBDA key : Len(key) > 0)
         \o PathOfItems(Tail(items))

\* lines 85-97: the keys of a key path string
PathKeys(pathString) == PathOfItems(SplitDots(Trim(pathString)))

RECURSIVE Walk(_, _, _)
Walk(current, path, def) ==
  IF path = <<>> THEN current
  ELSE IF Falsy(Prop(current, Head(path))) THEN def
  ELSE Walk(Prop(current, Head(path)), Tail(path), def)

\* lines 84-107; typeof null is "object", and reading a property of null
\* (line 102) throws TypeError
get(obj, pathString, def) ==
  IF obj.type = "object" THEN Walk(obj, PathKeys(pathString), def)
  ELSE IF obj.type = "null" /\ PathKeys(pathString) # <<>> THEN JThrows
  ELSE obj

\* the text React state holds after setData(v)
Undefined == <<"undefined">>
TextOf(v) ==
  IF v.type = "string" THEN v.value
  ELSE IF v.type = "null" THEN <<"null">>
  ELSE Undefined

\* ------------------------------------------------------ JSON.parse (value)
\* JSON.parse on the texts a stream line can carry: strings, objects and
\* null.  Each decoder returns the index after what it consumed (0 when the
\* text is rejected there) and the value decoded.
Rejected == [end |-> 0, val |-> JUndefined]

\* i is the position after the opening quote, acc the text decoded so far
RECURSIVE DecodeString(_, _, _)
DecodeString(s, i, acc) ==
  IF i > Len(s) THEN Rejected
  ELSE IF s[i] = "\"" THEN [end |-> i + 1, val |-> JString(acc)]
  ELSE IF s[i] = "\\"
       THEN IF i + 1 <= Len(s) /\ s[i + 1] \in {"\"", "\\"}
            THEN DecodeString(s, i + 2, Append(acc, s[i + 1]))
            ELSE Rejected
  ELSE IF s[i] \in {"\n", "\r", "\t"} THEN Rejected
  ELSE DecodeString(s, i + 1, Append(acc, s[i]))

RECURSIVE DecodeValue(_, _)
RECURSIVE DecodeMembers(_, _, _)
\* i is the position of the first character of a member, f the members
\* decoded so far (a repeated key keeps its last value)
DecodeMembers(s, i, f) ==
  LET k == SkipWs(s, i)
  IN IF k > Len(s) \/ s[k] # "\"" THEN Rejected
     ELSE LET key == DecodeString(s, k + 1, <<>>)
              c == IF key.end = 0 THEN 0 ELSE SkipWs(s, key.end)
          IN IF c = 0 \/ c > Len(s) \/ s[c] # ":" THEN Rejected
             ELSE LET v == DecodeValue(s, c + 1)
                      n == IF v.end = 0 THEN 0 ELSE SkipWs(s, v.end)
                      g == (key.val.value :> v.val) @@ f
                  IN IF n = 0 \/ n > Len(s) THEN Rejected
                     ELSE IF s[n] = "}" THEN [end |-> n + 1, val |-> JObject(g)]
                     ELSE IF s[n] = "," THEN DecodeMembers(s, n + 1, g)
                     ELSE Rejected

DecodeValue(s, i) ==
  LET k == SkipWs(s, i)
  IN IF k > Len(s) THEN Rejected
     ELSE IF s[k] = "\"" THEN DecodeString(s, k + 1, <<>>)
     ELSE IF s[k] = "{"
          THEN LET m == SkipWs(s, k + 1)
               IN IF m <= Len(s) /\ s[m] = "}"
                  THEN [end |-> m + 1, val |-> JObject(<<>>)]
                  ELSE DecodeMembers(s, k + 1, <<>>)
     ELSE IF k + 3 <= Len(s) /\ SubSeq(s, k, k + 3) = <<"n", "u", "l", "l">>
          THEN [end |-> k + 4, val |-> JNull]
     ELSE Rejected

\* JSON.parse(s): the decoded value, JThrows when it throws SyntaxError
JSONParse(s) ==
  LET d == DecodeValue(s, 1)
  IN IF d.end # 0 /\ SkipWs(s, d.end) = Len(s) + 1 THEN d.val ELSE JThrows

\* ------------------------------------------------------------------ state
VARIABLES
  basePrompt, prompt, input, execute, modelOverride,  \* arguments of the call
  preferences, canAccess, models,                     \* collaborators
  data, error, dataTag, isLoading,                    \* useState cells
  AIRef,          \* AIRef.current: 0 (undefined) or the index of a fetch
  reqs,           \* every fetch issued so far, in order of issue
  mounted,        \* the hook has rendered at least once
  renders,        \* renders with changed arguments so far
  threw,          \* the last render threw instead of returning
  unhandled       \* a promise of the hook was rejected with no handler

args == <<basePrompt, prompt, input, execute, modelOverride>>
env == <<preferences, canAccess, models>>
cells == <<data, error, dataTag, isLoading>>
vars == <<args, env, cells, AIRef, reqs, mounted, renders, threw, unhandled>>

\* the value of `error` before any setError: undefined
NoError == "undefined"

\* ------------------------------------------------- the body of the render
\* The render is a function of the arguments and collaborators of the call,
\* c, and of the useState cells.  Call is the call the hook last rendered.
Call ==
  [basePrompt |-> basePrompt, prompt |-> prompt, input |-> input,
   execute |-> execute, modelOverride |-> modelOverride,
   preferences |-> preferences, models |-> models]

\* lines 51-68
preferenceModel(c) ==
  [name |-> "", endpoint |-> c.preferences.modelEndpoint,
   inputSchema |-> c.preferences.inputSchema,
   outputKeyPath |-> c.preferences.outputKeyPath,
   outputTiming |-> c.preferences.outputTiming, isDefault |-> FALSE]

\* line 69: models.models.find((model) => model.isDefault)
defaultModel(c) ==
  LET ms == c.models.models
  IN IF \E i \in 1..Len(ms) : ms[i].isDefault
     THEN ms[CHOOSE i \in 1..Len(ms) :
               ms[i].isDefault /\ \A j \in 1..(i - 1) : ~ms[j].isDefault]
     ELSE NoModel

\* the resolution with the preference Model taken before the registry default
targetModelPreferenceFirst(c) ==
  IF c.modelOverride # NoModel THEN c.modelOverride
  ELSE IF preferenceModel(c).endpoint # <<>> THEN preferenceModel(c)
  ELSE IF defaultModel(c) # NoModel THEN defaultModel(c)
  ELSE fallbackModel

\* lines 70-71
targetModel(c) ==
  IF c.modelOverride # NoModel THEN c.modelOverride
  ELSE IF defaultModel(c) # NoModel THEN defaultModel(c)
  ELSE IF preferenceModel(c).endpoint = <<>> THEN fallbackModel
  ELSE preferenceModel(c)

\* lines 72-75
raycastModel(c) ==
  \/ ToLowerCase(targetModel(c).endpoint) \in validRaycastAIReps
  \/ targetModel(c).endpoint = <<>>
  \/ (c.models.isLoading /\ c.modelOverride = NoModel
        /\ preferenceModel(c).endpoint = <<>>)

\* lines 127-143: the inputSchema with its placeholders substituted
SubstitutedSchema(c) ==
  LET schema == targetModel(c).inputSchema
      s1 == Replace(schema, PhPrompt,
                    c.preferences.promptPrefix \o Sanitize(c.prompt)
                      \o c.preferences.promptSuffix)
      s2 == Replace(s1, PhBasePrompt,
                    c.preferences.promptPrefix \o Sanitize(c.basePrompt))
  IN Replace(s2, PhInput,
             IF Includes(schema, PhPromptOpen) /\ c.prompt = c.input
             THEN <<>>
             ELSE Sanitize(c.input) \o c.preferences.promptSuffix)

\* lines 124-144: JSON.parse throws out of the render
ParseThrows(c) == ~raycastModel(c) /\ ~JSONParses(SubstitutedSchema(c))

\* lines 176, 195, 210, 221, 243, 268
TagOf(c) == c.basePrompt \o c.prompt \o c.input
Tag == TagOf(Call)

\* the result of the collaborator useAI (@raycast/utils) for its arguments
useAI(p, exec) ==
  [data |-> IF exec THEN <<"A", "I">> ELSE <<>>, isLoading |-> FALSE,
   error |-> NoError]

\* lines 236-253
res ==
  IF canAccess
  THEN LET ai == useAI(preferences.promptPrefix \o prompt
                         \o preferences.promptSuffix, execute)
       IN [data |-> ai.data, isLoading |-> ai.isLoading, error |-> ai.error,
           dataTag |-> Tag]
  ELSE [data |-> data, isLoading |-> TRUE, error |-> error, dataTag |-> dataTag]

\* lines 255-287: what the render returns (when it returns)
Returned ==
  IF basePrompt = <<>> /\ prompt = <<>>
  THEN [data |-> <<>>, isLoading |-> FALSE, error |-> "Prompt cannot be empty",
        dataTag |-> <<>>]
  ELSE IF ToLowerCase(targetModel(Call).endpoint) \in validRaycastAIReps
            \/ models.isLoading
  THEN IF models.isLoading
       THEN [data |-> <<>>, isLoading |-> TRUE, error |-> NoError,
             dataTag |-> Tag]
       ELSE res
  ELSE IF Includes(targetModel(Call).endpoint, <<":">>)
  THEN [data |-> data, isLoading |-> isLoading, error |-> error,
        dataTag |-> dataTag]
  ELSE [data |-> <<>>, isLoading |-> FALSE, error |-> "Invalid Endpoint",
        dataTag |-> <<>>]

\* lines 236-242: the invocation of useAI made by the last render
AICall ==
  IF mounted /\ ~threw /\ canAccess
  THEN [invoked |-> TRUE, execute |-> execute,
        prompt |-> preferences.promptPrefix \o prompt \o preferences.promptSuffix]
  ELSE [invoked |-> FALSE, execute |-> FALSE, prompt |-> <<>>]

\* --------------------------------------------------- responses and streams
PrefixData == <<"d", "a", "t", "a", ":", " ">>
PrefixDone == PrefixData \o <<"[", "D", "O", "N", "E", "]">>
\* the text of the event line  data: {"t":"<t>"}
EventLine(t) == PrefixData \o <<"{", Q, "t", Q, ":", Q>> \o t \o <<Q, "}">>

\* one line of a streamed chunk, with its text: a "data: " event with its
\* decoded payload, the "data: [DONE]" sentinel, a "data: " line that is not
\* JSON, or a line without the prefix
DataLine(t) ==
  [kind |-> "data", json |-> JObject([k \in {<<"t">>} |-> JString(t)]),
   text |-> EventLine(t)]
DoneLine == [kind |-> "done", json |-> JUndefined, text |-> PrefixDone]
BadLine == [kind |-> "bad", json |-> JUndefined, text |-> PrefixData]
OtherLine == [kind |-> "other", json |-> JUndefined, text |-> <<>>]

\* String.prototype.startsWith
StartsWith(s, prefix) ==
  Len(prefix) <= Len(s) /\ SubSeq(s, 1, Len(prefix)) = prefix

\* split("\n")
RECURSIVE SplitLines(_)
SplitLines(s) ==
  LET i == FirstIndex(s, <<"\n">>)
  IN IF i = 0 THEN <<s>>
     ELSE <<SubSeq(s, 1, i - 1)>> \o SplitLines(SubSeq(s, i + 1, Len(s)))

\* lines 199-203: what the listener makes of one line of text
LineOf(line) ==
  IF StartsWith(line, PrefixDone) THEN [DoneLine EXCEPT !.text = line]
  ELSE IF StartsWith(line, PrefixData)
  THEN LET jsonData == JSONParse(SubSeq(line, 6, Len(line)))
       IN IF jsonData = JThrows THEN [BadLine EXCEPT !.text = line]
          ELSE [kind |-> "data", json |-> jsonData, text |-> line]
  ELSE [OtherLine EXCEPT !.text = line]

\* the text of a chunk from its lines (the inverse of split("\n"))
RECURSIVE ChunkText(_)
ChunkText(chunk) ==
  IF Len(chunk) = 1 THEN chunk[1].text
  ELSE chunk[1].text \o <<"\n">> \o ChunkText(Tail(chunk))

\* lines 197-198: the lines of one chunk of text
LinesOfChunk(jsonString) ==
  LET ls == SplitLines(jsonString) IN [i \in 1..Len(ls) |-> LineOf(ls[i])]

\* the chunks a response body can deliver as its k-th chunk
ChunksAt(k) ==
  IF k = 1 THEN { <<DataLine(<<"x">>)>> } ELSE { <<DataLine(<<"y">>), DoneLine>> }
SyncBodies == { JObject([k \in {<<"t">>} |-> JString(<<"x">>)]),
                JObject([k \in {<<"u">>} |-> JString(<<"x">>)]),
                JNull }

\* the texts a backend sends as the value of one event
Fragments == { <<>>, <<"x">>, <<"x", "y">>, <<"y">> }
\* lines that carry no event: the sentinel, the two halves of an event cut
\* by a chunk boundary (a "data: " line that is not JSON, a line without
\* the prefix), and an event whose payload is null
SentinelText == PrefixDone
CutHeadText == PrefixData \o <<"{", Q, "t", Q, ":">>
CutTailText == <<Q, "x", Q, "}">>
NullEventText == PrefixData \o <<"n", "u", "l", "l">>
PlainLines == { SentinelText, CutHeadText, CutTailText, NullEventText }
StreamLines == { EventLine(f) : f \in Fragments } \cup PlainLines
\* the chunks of text of a stream: one line, or a line that carries no event
\* followed by an event
StreamChunks ==
  StreamLines
    \cup { a \o <<"\n">> \o EventLine(f) : a \in PlainLines, f \in Fragments }

\* output.toString()
ToStringOf(v) ==
  IF v.type = "string" THEN v.value
  ELSE <<"[", "o", "b", "j", "e", "c", "t", " ", "O", "b", "j", "e", "c", "t", "]">>

\* the merge that appends every fragment
MergeLineAlwaysAppend(text, json, keyPath) ==
  LET v == get(json, keyPath, JUndefined)
      output == IF Falsy(v) THEN <<>> ELSE ToStringOf(v)
  IN IF v = JThrows THEN text ELSE text \o output

\* lines 204-209: the text after one "data: " line (a throw of get is
\* caught on line 213 before text is assigned)
MergeLine(text, json, keyPath) ==
  LET v == get(json, keyPath, JUndefined)
      output == IF Falsy(v) THEN <<>> ELSE ToStringOf(v)
  IN IF v = JThrows THEN text
     ELSE IF Includes(output, text) THEN output ELSE text \o output

\* the listener without the try/catch of lines 202-215: a payload that is
\* not JSON ends the processing of the chunk
RECURSIVE FoldLinesStopAtBad(_, _, _)
FoldLinesStopAtBad(text, lines, keyPath) ==
  IF lines = <<>> \/ Head(lines).kind = "bad" THEN text
  ELSE FoldLinesStopAtBad(IF Head(lines).kind = "data"
                          THEN MergeLine(text, Head(lines).json, keyPath)
                          ELSE text,
                          Tail(lines), keyPath)

\* lines 198-217: the listener's text after the lines of one chunk
RECURSIVE FoldLines(_, _, _)
FoldLines(text, lines, keyPath) ==
  IF lines = <<>> THEN text
  ELSE FoldLines(IF Head(lines).kind = "data"
                 THEN MergeLine(text, Head(lines).json, keyPath)
                 ELSE text,
                 Tail(lines), keyPath)

\* a chunk with a line that reaches line 210
HasDataLine(chunk, keyPath) ==
  \E i \in 1..Len(chunk) :
    chunk[i].kind = "data" /\ get(chunk[i].json, keyPath, JUndefined) # JThrows

\* the fetch of line 155 and what hangs on it
NewRequest(tag, endpoint) ==
  [tag |-> tag, endpoint |-> endpoint,
   status |-> "pending",     \* "pending", "ok", "notok" (!response.ok), "rejected"
   reactions |-> <<>>,       \* callbacks waiting on the fetch promise
   attached |-> 0,           \* handlers of line 187 attached so far
   listeners |-> <<>>,       \* "data" listeners on response.body
   body |-> "none",          \* "none", "open", "ended", "closed"
   closeEmitted |-> FALSE,   \* body.emit("close") was called
   json |-> "none",          \* response.json(): "none", "reading", "done"
   jsonPath |-> <<>>,
   chunks |-> 0,             \* chunks the body has delivered
   received |-> <<>>,        \* the lines of those chunks, in arrival order
   stream |-> <<>>]          \* the text of the body delivered so far

\* the then/finally pair of lines 187-226 as attached by one effect run
Handler(ctag, model) ==
  [kind |-> "handler", ctag |-> ctag, timing |-> model.outputTiming,
   keyPath |-> model.outputKeyPath]
\* the then of stopModel, lines 230-232
StopReaction == [kind |-> "stop", ctag |-> <<>>, timing |-> "", keyPath |-> <<>>]

IsHandler(h) == h.kind = "handler"
AsyncHandlers(hs) == SelectSeq(hs, LAMBDA h : IsHandler(h) /\ h.timing = "async")
SyncHandlers(hs) == SelectSeq(hs, LAMBDA h : IsHandler(h) /\ h.timing = "sync")

\* lines 177-181, 221-222, 230-232: running hs on the settled fetch q emits
\* "close" on the body
EmitsClose(q, hs) ==
  /\ q.status # "rejected"
  /\ \E i \in 1..Len(hs) :
       hs[i].kind = "stop" \/ (IsHandler(hs[i]) /\ hs[i].ctag # q.tag)

\* the fetch q (settled) after the callbacks hs have run on it; closeWorks
\* says whether emitting "close" ends the delivery of the body
RunReactions(q, hs, closeWorks) ==
  LET ok == q.status = "ok"
      as == AsyncHandlers(hs)
      closed == EmitsClose(q, hs) /\ closeWorks
      reads == ok /\ SyncHandlers(hs) # <<>> /\ q.json = "none" /\ q.body = "open"
  IN [q EXCEPT
        !.reactions = <<>>,
        !.listeners = IF ok
                      THEN @ \o [i \in 1..Len(as) |->
                                   [ctag |-> as[i].ctag, keyPath |-> as[i].keyPath,
                                    text |-> <<>>]]
                      ELSE @,
        !.closeEmitted = @ \/ EmitsClose(q, hs),
        !.json = IF reads THEN "reading" ELSE @,
        !.jsonPath = IF reads THEN SyncHandlers(hs)[1].keyPath ELSE @,
        !.body = IF closed /\ @ = "open" THEN "closed" ELSE @]

\* line 195 as run by the callbacks hs
DataTagAfter(q, hs, old) ==
  LET as == AsyncHandlers(hs)
  IN IF q.status = "ok" /\ as # <<>> THEN as[Len(as)].ctag ELSE old

\* lines 220-226 as run by the callbacks hs
IsLoadingAfter(q, hs, old) ==
  IF \E i \in 1..Len(hs) : IsHandler(hs[i]) /\ hs[i].ctag = q.tag
  THEN FALSE ELSE old

\* the outcomes emitting "close" can have
CloseOutcomes(q, hs) == IF EmitsClose(q, hs) THEN BOOLEAN ELSE {FALSE}

\* the ways the fetch of an endpoint can settle: an endpoint that is not an
\* absolute URL is rejected by fetch itself
Outcomes(endpoint) ==
  IF Includes(endpoint, <<":">>) THEN {"ok", "notok", "rejected"} ELSE {"rejected"}

\* ---------------------------------------------------------------- actions
Init ==
  /\ \E t \in Texts : basePrompt = t[1] /\ prompt = t[2] /\ input = t[3]
  /\ execute \in BOOLEAN
  /\ \E su \in Setups :
       modelOverride = su[1] /\ preferences = su[2] /\ models = su[3]
  /\ canAccess \in BOOLEAN
  /\ data = <<>>
  /\ error = NoError
  /\ dataTag = <<>>
  /\ isLoading = FALSE
  /\ AIRef = 0
  /\ reqs = <<>>
  /\ mounted = FALSE
  /\ renders = 0
  /\ threw = FALSE
  /\ unhandled = FALSE

\* the dispatch condition without its test of AIRef.current
DispatchesIgnoringRef(c) == c.execute /\ Len(c.prompt) > 0 /\ ~isLoading

\* line 154: the effect of the render of call c issues a fetch (the render's
\* isLoading is the cell's value)
Dispatches(c) == AIRef = 0 /\ c.execute /\ Len(c.prompt) > 0 /\ ~isLoading

\* lines 149-227: one run of the effect of the render of call c, with the
\* promise callbacks that run before the next task when the fetch it hooks
\* onto has already settled
Effect(c) ==
  IF raycastModel(c) \/ ~c.execute
  THEN UNCHANGED <<AIRef, reqs, isLoading, dataTag, unhandled>>
  ELSE LET reqs1 == IF Dispatches(c)
                    THEN Append(reqs, NewRequest(TagOf(c), targetModel(c).endpoint))
                    ELSE reqs
           me == IF Dispatches(c) THEN Len(reqs) + 1 ELSE AIRef
           h == Handler(TagOf(c), targetModel(c))
       IN /\ Dispatches(c) => Len(reqs) < MaxReq
          /\ AIRef' = me
          /\ IF me = 0
             THEN /\ reqs' = reqs1
                  /\ isLoading' = TRUE
                  /\ UNCHANGED <<dataTag, unhandled>>
             ELSE LET q == reqs1[me]
                  IN /\ q.attached < MaxHandlers
                     /\ IF q.status = "pending"
                        THEN /\ reqs' = [reqs1 EXCEPT ![me].reactions = Append(@, h),
                                                      ![me].attached = @ + 1]
                             /\ isLoading' = TRUE
                             /\ UNCHANGED <<dataTag, unhandled>>
                        ELSE /\ \E cw \in CloseOutcomes(q, <<h>>) :
                                  reqs' = [reqs1 EXCEPT ![me] =
                                             [RunReactions(q, <<h>>, cw)
                                                EXCEPT !.attached = @ + 1]]
                             /\ isLoading' = IsLoadingAfter(q, <<h>>, TRUE)
                             /\ dataTag' = DataTagAfter(q, <<h>>, dataTag)
                             /\ unhandled' = (unhandled \/ q.status = "rejected")

\* lines 15-287 then 149-227: the render of call c and its effect; a render
\* that throws commits nothing and runs no effect
RenderAndEffect(c) ==
  /\ threw' = ParseThrows(c)
  /\ IF ParseThrows(c)
     THEN UNCHANGED <<AIRef, reqs, isLoading, dataTag, unhandled>>
     ELSE Effect(c)
  /\ UNCHANGED <<data, error>>

\* the first call of the hook
Mount ==
  /\ ~mounted
  /\ mounted' = TRUE
  /\ UNCHANGED <<args, env, renders>>
  /\ RenderAndEffect(Call)

\* the caller renders again with other arguments (line 227: each of the four
\* is a dependency of the effect)
Rerender(bp, p, i, e) ==
  /\ mounted /\ ~threw
  /\ renders < MaxRenders
  /\ renders' = renders + 1
  /\ <<bp, p, i, e>> # <<basePrompt, prompt, input, execute>>
  /\ basePrompt' = bp /\ prompt' = p /\ input' = i /\ execute' = e
  /\ UNCHANGED <<modelOverride, env, mounted>>
  /\ RenderAndEffect([Call EXCEPT !.basePrompt = bp, !.prompt = p,
                                  !.input = i, !.execute = e])

\* useModels() finishes loading: the hook renders again, the effect does not
\* run (line 227)
RegistryLoads(ms) ==
  /\ mounted /\ ~threw
  /\ models.isLoading
  /\ models' = Loaded(ms)
  /\ UNCHANGED <<args, preferences, canAccess, mounted, renders>>
  /\ threw' = ParseThrows([Call EXCEPT !.models = Loaded(ms)])
  /\ UNCHANGED <<cells, AIRef, reqs, unhandled>>

\* the fetch promise of request r settles; its callbacks run in the order
\* they were attached, then the finally callbacks
FetchSettles(r, outcome) ==
  /\ mounted /\ ~threw
  /\ r \in 1..Len(reqs)
  /\ reqs[r].status = "pending"
  /\ outcome \in Outcomes(reqs[r].endpoint)
  /\ LET hs == reqs[r].reactions
         q == [reqs[r] EXCEPT !.status = outcome,
                              !.body = IF outcome = "rejected" THEN "none" ELSE "open"]
     IN /\ \E cw \in CloseOutcomes(q, hs) :
             reqs' = [reqs EXCEPT ![r] = RunReactions(q, hs, cw)]
        /\ dataTag' = DataTagAfter(q, hs, dataTag)
        /\ isLoading' = IsLoadingAfter(q, hs, isLoading)
        /\ unhandled' = (unhandled \/ (outcome = "rejected" /\ hs # <<>>))
  /\ UNCHANGED <<args, env, data, error, AIRef, mounted, renders, threw>>

\* the listeners' texts after a chunk, in order of registration
ListenersAfter(ls, chunk) ==
  [i \in 1..Len(ls) |->
     [ls[i] EXCEPT !.text = FoldLines(@, chunk, ls[i].keyPath)]]

\* lines 210-212: the last setData of the chunk, if any
DataAfterChunk(q, chunk, old) ==
  LET ls == ListenersAfter(q.listeners, chunk)
      setters == {i \in 1..Len(ls) :
                    ls[i].ctag = q.tag /\ HasDataLine(chunk, ls[i].keyPath)}
  IN IF setters # {}
     THEN ls[CHOOSE i \in setters : \A j \in setters : j <= i].text
     ELSE old

\* lines 196-218: the listeners of response r run on a chunk
Deliver(r, chunk) ==
  /\ mounted /\ ~threw
  /\ r \in 1..Len(reqs)
  /\ reqs[r].status = "ok" /\ reqs[r].body = "open"
  /\ reqs[r].listeners # <<>>
  /\ reqs[r].chunks < MaxChunks
  /\ reqs' = [reqs EXCEPT ![r].listeners = ListenersAfter(@, chunk),
                          ![r].chunks = @ + 1,
                          ![r].received = @ \o chunk,
                          ![r].stream = @ \o ChunkText(chunk)]
  /\ data' = DataAfterChunk(reqs[r], chunk, data)
  /\ UNCHANGED <<args, env, error, dataTag, isLoading, AIRef, mounted, renders, threw, unhandled>>

\* the body of response r emits "data" with its next chunk
ChunkArrives(r, chunk) ==
  /\ r \in 1..Len(reqs)
  /\ chunk \in ChunksAt(reqs[r].chunks + 1)
  /\ Deliver(r, chunk)

\* the body of response r ends
StreamEnds(r) ==
  /\ mounted /\ ~threw
  /\ r \in 1..Len(reqs)
  /\ reqs[r].status = "ok" /\ reqs[r].body = "open" /\ reqs[r].json # "reading"
  /\ reqs' = [reqs EXCEPT ![r].body = "ended"]
  /\ UNCHANGED <<args, env, cells, AIRef, mounted, renders, threw, unhandled>>

\* lines 189-192: response.json() of response r resolves with doc
SyncBodyParsed(r, doc) ==
  /\ mounted /\ ~threw
  /\ r \in 1..Len(reqs)
  /\ reqs[r].json = "reading" /\ reqs[r].body = "open"
  /\ reqs' = [reqs EXCEPT ![r].json = "done", ![r].body = "ended"]
  /\ LET output == get(doc, reqs[r].jsonPath, JUndefined)
     IN IF output = JThrows
        THEN data' = data /\ unhandled' = TRUE
        ELSE data' = TextOf(output) /\ UNCHANGED unhandled
  /\ UNCHANGED <<args, env, error, dataTag, isLoading, AIRef, mounted, renders, threw>>

\* lines 229-234 (a call with AIRef.current undefined changes nothing)
stopModel ==
  /\ mounted /\ ~threw
  /\ AIRef # 0
  /\ LET q == reqs[AIRef]
     IN IF q.status = "pending"
        THEN /\ reqs' = [reqs EXCEPT ![AIRef].reactions = Append(@, StopReaction)]
             /\ UNCHANGED unhandled
        ELSE /\ \E cw \in CloseOutcomes(q, <<StopReaction>>) :
                  reqs' = [reqs EXCEPT ![AIRef] = RunReactions(q, <<StopReaction>>, cw)]
             /\ unhandled' = (unhandled \/ q.status = "rejected")
  /\ AIRef' = 0
  /\ UNCHANGED <<args, env, cells, mounted, renders, threw>>

Next ==
  \/ Mount
  \/ \E t \in Texts, e \in BOOLEAN : Rerender(t[1], t[2], t[3], e)
  \/ \E ms \in LoadedRegistries : RegistryLoads(ms)
  \/ \E r \in 1..MaxReq, outcome \in {"ok", "notok", "rejected"} :
       FetchSettles(r, outcome)
  \/ \E r \in 1..MaxReq, k \in 1..MaxChunks :
       \E chunk \in ChunksAt(k) : ChunkArrives(r, chunk)
  \/ \E r \in 1..MaxReq : StreamEnds(r)
  \/ \E r \in 1..MaxReq, doc \in SyncBodies : SyncBodyParsed(r, doc)
  \/ stopModel

Spec == Init /\ [][Next]_vars

\* The hook on an HTTP Model of a registry that has loaded: the same actions
\* without RegistryLoads, from the calls whose resolved Model is the default
\* Model of the registry, streamed or synchronous, or one whose endpoint
\* fetch rejects.
InitHttp ==
  /\ Init
  /\ <<modelOverride, preferences, models>> \in
       { <<NoModel, PrefsEmpty, Loaded(<<HttpAsync>>)>>,
         <<NoModel, PrefsEmpty, Loaded(<<NotDefault, HttpSync>>)>>,
         <<NoModel, PrefsEmpty, Loaded(<<NoColonModel>>)>> }
  /\ ~canAccess

NextHttp ==
  \/ Mount
  \/ \E t \in Texts, e \in BOOLEAN : Rerender(t[1], t[2], t[3], e)
  \/ \E r \in 1..MaxReq, outcome \in {"ok", "notok", "rejected"} :
       FetchSettles(r, outcome)
  \/ \E r \in 1..MaxReq, k \in 1..MaxChunks :
       \E chunk \in ChunksAt(k) : ChunkArrives(r, chunk)
  \/ \E r \in 1..MaxReq : StreamEnds(r)
  \/ \E r \in 1..MaxReq, doc \in SyncBodies : SyncBodyParsed(r, doc)
  \/ stopModel

SpecHttp == InitHttp /\ [][NextHttp]_vars

\* One streamed response: the hook is called once on an HTTP Model with
\* outputTiming async, and the body delivers chunks of text of any content.
InitStream ==
  /\ Init
  /\ <<basePrompt, prompt, input>> = << <<>>, <<"a">>, <<>> >>
  /\ modelOverride = NoModel /\ preferences = PrefsEmpty
  /\ models = Loaded(<<HttpAsync>>)
  /\ ~canAccess

NextStream ==
  \/ Mount
  \/ \E r \in 1..MaxReq, outcome \in {"ok", "notok", "rejected"} :
       FetchSettles(r, outcome)
  \/ \E r \in 1..MaxReq, jsonString \in StreamChunks :
       Deliver(r, LinesOfChunk(jsonString))
  \/ \E r \in 1..MaxReq : StreamEnds(r)
  \/ stopModel

SpecStream == InitStream /\ [][NextStream]_vars

\* The first call of the hook, and the registry finishing its load, from
\* every combination of override, preference values and registry.
InitResolve ==
  /\ \E t \in Texts : basePrompt = t[1] /\ prompt = t[2] /\ input = t[3]
  /\ execute \in BOOLEAN
  /\ modelOverride \in {NoModel, HttpSync, EmptyEpModel}
  /\ preferences \in {PrefsEmpty, PrefsUrl}
  /\ models \in {Loading} \cup {Loaded(ms) : ms \in LoadedRegistries}
  /\ canAccess \in BOOLEAN
  /\ data = <<>> /\ error = NoError /\ dataTag = <<>> /\ isLoading = FALSE
  /\ AIRef = 0 /\ reqs = <<>>
  /\ mounted = FALSE /\ renders = 0 /\ threw = FALSE /\ unhandled = FALSE

NextResolve ==
  \/ Mount
  \/ \E ms \in LoadedRegistries : RegistryLoads(ms)

SpecResolve == InitResolve /\ [][NextResolve]_vars

\* ------------------------------------------------------------ properties
\* a fetch whose response has not been delivered in full and on whose body
\* the hook has not emitted "close"
InFlight(q) ==
  \/ q.status = "pending"
  \/ (q.status = "ok" /\ q.body = "open" /\ ~q.closeEmitted)

\* the step delivers data of response r: a chunk, or the parsed sync body
DeliversData(r) ==
  \/ reqs'[r].chunks # reqs[r].chunks
  \/ (reqs[r].json = "reading" /\ reqs'[r].json = "done")

\* the fetch promise of request r settles in the step
Completes(r) == reqs[r].status = "pending" /\ reqs'[r].status # "pending"

\* the call returns the cells of the HTTP path (line 274)
HttpPath ==
  /\ mounted /\ ~threw
  /\ ~(basePrompt = <<>> /\ prompt = <<>>)
  /\ ~models.isLoading
  /\ ToLowerCase(targetModel(Call).endpoint) \notin validRaycastAIReps
  /\ Includes(targetModel(Call).endpoint, <<":">>)

\* C1: data delivered by the response of a request whose tag differs from
\* the current tag never changes the data the hook returns.
C1_StaleDataSuppressed ==
  [][\A r \in 1..Len(reqs) :
       (reqs[r].tag # Tag /\ DeliversData(r)) => Returned'.data = Returned.data]_vars

\* C2: the completion of a request whose tag differs from the current tag
\* never takes isLoading from true to false.
C2_StaleCompletionKeepsLoading ==
  [][\A r \in 1..Len(reqs) :
       (Completes(r) /\ reqs[r].tag # Tag) => ~(isLoading /\ ~isLoading')]_vars

\* C3: when the request for the current tag is in flight on an HTTP Model
\* with execute enabled and the caller renders with inputs of another tag
\* (prompt non-empty, execute still enabled), the effect of that render, the
\* only place where the hook dispatches, leaves a request of the new tag as
\* the live request.
C3_SupersessionDispatches ==
  [][(/\ AIRef # 0
      /\ InFlight(reqs[AIRef]) /\ reqs[AIRef].tag = Tag
      /\ execute /\ ~raycastModel(Call)
      /\ Tag' # Tag /\ execute' /\ prompt' # <<>>
      /\ ~raycastModel(Call') /\ ~threw')
     => (AIRef' # 0 /\ reqs'[AIRef'].tag = Tag')]_vars

InvalidEndpoint(c) ==
  /\ ToLowerCase(targetModel(c).endpoint) \notin validRaycastAIReps
  /\ ~Includes(targetModel(c).endpoint, <<":">>)

\* C5: a render (registry loaded, prompt non-empty) whose resolved endpoint
\* is invalid returns the error "Invalid Endpoint" with isLoading false, and
\* no fetch is issued by it.
C5_InvalidEndpointNoRequest ==
  [][(mounted' /\ ~threw' /\ InvalidEndpoint(Call') /\ prompt' # <<>>
        /\ ~models'.isLoading)
     => (/\ Returned'.error = "Invalid Endpoint"
         /\ ~Returned'.isLoading
         /\ Len(reqs') = Len(reqs))]_vars

\* C6: once the live request of the current tag has failed (fetch rejected
\* or response not ok), the call on the HTTP path returns a defined error
\* and isLoading false, and no rejection is left unhandled.
C6_TransportErrorSurfaced ==
  \A r \in 1..Len(reqs) :
    (HttpPath /\ AIRef = r /\ reqs[r].tag = Tag
       /\ reqs[r].status \in {"notok", "rejected"})
    => (Returned.error # NoError /\ ~Returned.isLoading /\ ~unhandled)

\* C7: a call whose HTTP Model's substituted inputSchema is not JSON does
\* not throw and returns a defined error.
C7_TemplateErrorReturned ==
  (mounted /\ ~raycastModel(Call) /\ ~JSONParses(SubstitutedSchema(Call)))
  => (~threw /\ Returned.error # NoError)

\* C8: a render with basePrompt and prompt both empty returns the error
\* "Prompt cannot be empty" with empty data and isLoading false, and no
\* fetch is issued by it.
C8_EmptyPromptGuard ==
  [][(mounted' /\ basePrompt' = <<>> /\ prompt' = <<>>)
     => (/\ ~threw'
         /\ Returned'.error = "Prompt cannot be empty"
         /\ Returned'.data = <<>>
         /\ ~Returned'.isLoading
         /\ Len(reqs') = Len(reqs))]_vars

\* C9: useAI is invoked with execute enabled only when the resolved Model
\* is the managed service and the capability check is true; when the check
\* is false useAI is not invoked and res is a loading state.
C9_UseAIOnlyWhenManaged ==
  /\ (AICall.invoked /\ AICall.execute) => (raycastModel(Call) /\ canAccess)
  /\ (mounted /\ ~canAccess) => (~AICall.invoked /\ res.isLoading)

\* C10: when the resolved Model is classified as managed service, the prompt
\* is non-empty, the registry has loaded and the capability check is true,
\* the call returns the result of useAI with the tag.
C10_ManagedDelegation ==
  (mounted /\ ~threw /\ raycastModel(Call) /\ prompt # <<>>
     /\ ~models.isLoading /\ canAccess)
  => LET ai == useAI(preferences.promptPrefix \o prompt
                       \o preferences.promptSuffix, execute)
     IN Returned = [data |-> ai.data, isLoading |-> ai.isLoading,
                    error |-> ai.error, dataTag |-> Tag]

\* C11: the resolved Model is the override when one is given; otherwise the
\* first registry Model marked default when there is one; otherwise the
\* Model built from the preferences when its endpoint is non-empty;
\* otherwise the hardcoded fallback of the managed service.
C11_ResolutionOrder ==
  LET ms == models.models
      defaults == {i \in 1..Len(ms) : ms[i].isDefault}
      t == targetModel(Call)
  IN /\ modelOverride # NoModel => t = modelOverride
     /\ (modelOverride = NoModel /\ defaults # {})
          => \E i \in defaults : t = ms[i] /\ \A j \in defaults : i <= j
     /\ (modelOverride = NoModel /\ defaults = {}
           /\ preferences.modelEndpoint # <<>>)
          => /\ t.endpoint = preferences.modelEndpoint
             /\ t.inputSchema = preferences.inputSchema
             /\ t.outputKeyPath = preferences.outputKeyPath
             /\ t.outputTiming = preferences.outputTiming
     /\ (modelOverride = NoModel /\ defaults = {}
           /\ preferences.modelEndpoint = <<>>)
          => (t.endpoint = EpRaycastAI /\ t.name = "Text-Davinci-003 Via Raycast AI")

\* C11 witness: a call without override on a registry with a default Model
\* and a preference Model with an endpoint has rendered
C11_Witness ==
  /\ mounted
  /\ modelOverride = NoModel
  /\ \E i \in 1..Len(models.models) : models.models[i].isDefault
  /\ preferences.modelEndpoint # <<>>
  /\ targetModel(Call).endpoint # preferences.modelEndpoint

\* the request was stopped: every fetch is AIRef.current from its issue
\* (line 182) until stopModel clears the reference (line 233)
Stopped(r) == AIRef # r

\* C12: once stop was called on a request, no chunk of that request's
\* response changes the data the hook returns.
C12_NoChunkAfterStop ==
  [][\A r \in 1..Len(reqs) :
       (Stopped(r) /\ reqs'[r].chunks # reqs[r].chunks)
         => Returned'.data = Returned.data]_vars

\* C13: when the listener of a response runs on an event line carrying the
\* fragment f, its accumulated text becomes f if f contains the text
\* accumulated before, and that text followed by f otherwise (so the first
\* fragment replaces the empty text, and an empty fragment leaves a
\* non-empty text as it is); the data cell is set to the new text.
C13_MergeRule ==
  [][\A r \in 1..Len(reqs), f \in Fragments :
       Deliver(r, LinesOfChunk(EventLine(f)))
         => \A i \in 1..Len(reqs[r].listeners) :
              LET prev == reqs[r].listeners[i].text
                  new == IF Includes(f, prev) THEN f ELSE prev \o f
              IN /\ reqs'[r].listeners[i].text = new
                 /\ data' = new
                 /\ (prev = <<>> => new = f)
                 /\ ((f = <<>> /\ prev # <<>>) => new = prev)]_vars

\* C13 witness: a fragment that does not contain the accumulated text was
\* appended to it
C13_Witness ==
  \E r \in 1..Len(reqs) :
    /\ reqs[r].chunks = 2
    /\ reqs[r].listeners[1].text = <<"x", "y", "x">>
    /\ data = <<"x", "y", "x">>

\* C14: get never throws, and returns the supplied default when the root is
\* not an object (null included); stated on the call of the sync path,
\* whose default is undefined.
C14_GetDefaultsNeverThrows ==
  [][\A r \in 1..Len(reqs), doc \in SyncBodies :
       SyncBodyParsed(r, doc)
         => LET output == get(doc, reqs[r].jsonPath, JUndefined)
            IN /\ output # JThrows
               /\ (doc.type # "object" => output = JUndefined)
               /\ unhandled' = unhandled]_vars

\* C15: a chunk that is one line with the sentinel, one "data: " line that
\* is not JSON, or one line without the prefix leaves the accumulated text
\* and the data cell as they were and the body and its listeners in place;
\* an event line that follows such a line in the same chunk is merged as if
\* it came alone.
C15_PlainLinesAreNoOps ==
  [][\A r \in 1..Len(reqs), a \in {SentinelText, CutHeadText, CutTailText} :
       /\ Deliver(r, LinesOfChunk(a))
            => /\ \A i \in 1..Len(reqs[r].listeners) :
                    reqs'[r].listeners[i].text = reqs[r].listeners[i].text
               /\ data' = data
               /\ reqs'[r].body = "open"
               /\ Len(reqs'[r].listeners) = Len(reqs[r].listeners)
       /\ \A f \in Fragments :
            Deliver(r, LinesOfChunk(a \o <<"\n">> \o EventLine(f)))
              => \A i \in 1..Len(reqs[r].listeners) :
                   LET prev == reqs[r].listeners[i].text
                       new == IF Includes(f, prev) THEN f ELSE prev \o f
                   IN reqs'[r].listeners[i].text = new /\ data' = new]_vars

\* C15 witness: after a chunk holding the head of a cut event, the chunk
\* holding its tail and then an event was processed
C15_Witness ==
  \E r \in 1..Len(reqs) :
    /\ reqs[r].received =
         LinesOfChunk(CutHeadText)
           \o LinesOfChunk(CutTailText \o <<"\n">> \o EventLine(<<"x">>))
    /\ reqs[r].received[1].kind = "bad" /\ reqs[r].received[2].kind = "other"
    /\ data = <<"x">>

\* C16: on the HTTP path, whenever the response of a request writes the
\* data the call returns and the dataTag returned with it is non-empty,
\* that dataTag is the tag the request was dispatched with.
C16_DataTagLabelsData ==
  [][\A r \in 1..Len(reqs) :
       (DeliversData(r) /\ data' # data /\ HttpPath' /\ Returned'.dataTag # <<>>)
         => Returned'.dataTag = reqs[r].tag]_vars

\* C17: no fetch is issued by a call made while the registry is loading
\* with no override, and once the registry has loaded every fetch issued so
\* far went to the endpoint of the Model that is then resolved.
C17_NoDispatchWhileLoading ==
  [][/\ (models.isLoading /\ modelOverride = NoModel)
          => Len(reqs') = Len(reqs)
     /\ ~models'.isLoading
          => \A r \in 1..Len(reqs') :
               reqs'[r].endpoint = targetModel(Call').endpoint]_vars

\* C18: however many listeners the effect runs have put on the body of a
\* response, after each chunk the response delivers the data cell holds the
\* merge of all the lines the response has delivered so far, in arrival
\* order.
C18_OneAccumulator ==
  [][\A r \in 1..Len(reqs) :
       reqs'[r].chunks # reqs[r].chunks
         => data' = FoldLines(<<>>, reqs'[r].received,
                              reqs[r].listeners[1].keyPath)]_vars

\* C19: on the HTTP path, whenever isLoading is true some fetch is pending
\* with a handler whose completion sets isLoading to false.
C19_LoadingImpliesInFlight ==
  (HttpPath /\ isLoading)
  => \E r \in 1..Len(reqs) :
       /\ reqs[r].status = "pending"
       /\ \E i \in 1..Len(reqs[r].reactions) :
            IsHandler(reqs[r].reactions[i])
              /\ reqs[r].reactions[i].ctag = reqs[r].tag

\* C20: when isLoading goes from true to false and the live request, of the
\* current tag, has a successful response, the body of that response has
\* been delivered in full (the parsed sync body set, the stream ended).
C20_LoadingOutlastsDelivery ==
  [][(isLoading /\ ~isLoading')
       => \A r \in 1..Len(reqs') :
            (AIRef' = r /\ reqs'[r].tag = Tag' /\ reqs'[r].status = "ok")
              => reqs'[r].body = "ended"]_vars

\* the text is a sequence of complete event lines separated by newlines
CompleteEvents(s) ==
  \A i \in 1..Len(LinesOfChunk(s)) :
    LinesOfChunk(s)[i].kind = "data" \/ LinesOfChunk(s)[i].text = <<>>

\* C21: whenever the text a response body has delivered so far is a
\* sequence of complete event lines, the text accumulated by the listener
\* that has heard all of it is what the listener accumulates when the same
\* text arrives as one chunk, however it was cut into chunks.
C21_ChunkingIndependent ==
  \A r \in 1..Len(reqs) :
    (reqs[r].chunks > 0 /\ CompleteEvents(reqs[r].stream))
      => reqs[r].listeners[1].text =
           FoldLines(<<>>, LinesOfChunk(reqs[r].stream),
                     reqs[r].listeners[1].keyPath)

====
